---- MODULE Spec2Model ----
(***************************************************************************)
(* Model of SunnyWay/concept_vqa:                                          *)
(*   src/ensemble.py  main()  - checkpoint catalog, batched inference,     *)
(*                              confidence sum, weighted vote, two result  *)
(*                              files;                                     *)
(*   src/train.py     main()  - the epoch loop's best-checkpoint tracking. *)
(*                                                                         *)
(* Three specifications:                                                   *)
(*   SpecMain  - ensemble.py main() entered at its first statement         *)
(*               (line 28);                                                *)
(*   Spec      - the pipeline of ensemble.py main() from line 33 on, i.e.  *)
(*               with args bound by parser.parse_args();                   *)
(*   SpecTrain - the training loop of train.py, lines 149-182.             *)
(*                                                                         *)
(* Strings the code takes apart (file names) are tuples of one-character   *)
(* strings.  Python dicts are sequences of <<key, value>> pairs in         *)
(* insertion order (the order dict iteration follows).                     *)
(***************************************************************************)
EXTENDS Naturals, Integers, Sequences, FiniteSets, TLC

VARIABLES
    pc,            \* position of main() in ensemble.py
    err,           \* name of the exception that ended the run ("" if none)
    cli,           \* argv: whether --cfg / --set were given
    files,         \* os.listdir(args.model_dir), in the order returned
    bs,            \* args.bs
    model_info,    \* list of (model_group_name, model_name, model_acc, cp_path)
    cur,           \* index in model_info of the entry of the outer for loop
    view,          \* question ids the dataloader yields for the current entry
    model,         \* the loaded scoring function of the current entry
    fed,           \* number of samples the dataloader has yielded so far
    start,         \* local variable start
    conf_buff,     \* numpy array: sample position -> vector over the vocabulary
    vote_buff,     \* list: sample position -> dict answer -> weight
    conf_result,   \* list of {'question_id', 'answer'}
    vote_result,   \* list of {'question_id', 'answer'}
    fs,            \* state of result-conf.json / result-vote.json in model_dir
    fs0,           \* their state when the run began
    passes,        \* history: what each processed entry's pass consisted of
    tpc,           \* position of main() in train.py
    epoch,         \* loop variable epoch
    best_acc,      \* local best_acc
    best_epoch,    \* local best_epoch
    is_best,       \* local is_best ("unbound" until first assigned)
    accs,          \* history: validate()'s result of every epoch so far
    saved,         \* epochs whose checkpoint-NNN.pth.tar has been written
    model_best,    \* epoch whose checkpoint model-best.pth.tar holds (-1: no file)
    copies         \* history: epochs in which model-best.pth.tar was overwritten

ensVars == <<pc, err, cli, files, bs, model_info, cur, view, model, fed, start,
             conf_buff, vote_buff, conf_result, vote_result, fs, fs0, passes>>
trainVars == <<tpc, epoch, best_acc, best_epoch, is_best, accs, saved, model_best, copies>>
vars == <<ensVars, trainVars>>

(***************************************************************************)
(* Bounds                                                                  *)
(***************************************************************************)
NumSamples == 3      \* len(dataset)
MaxBatch == 2        \* largest --bs tried
MaxFiles == 2        \* longest directory listing
MaxEpochs == 4       \* args.epochs
MaxAcc == 3          \* largest validation accuracy

ScoreValues == {0, 1}

(***************************************************************************)
(* Characters and strings                                                  *)
(***************************************************************************)
\* the characters used, in code point order
Alphabet == <<"-", ".", "0", "1", "2", "a", "b", "h", "m", "n", "p", "r", "t", "x">>

Ord(c) == CHOOSE i \in 1..Len(Alphabet) : Alphabet[i] = c

Digits == {"0", "1", "2"}

DigitVal(c) == Ord(c) - Ord("0")

\* str < str
RECURSIVE StrLess(_, _)
StrLess(s, t) ==
    IF t = <<>> THEN FALSE
    ELSE IF s = <<>> THEN TRUE
    ELSE IF Ord(Head(s)) < Ord(Head(t)) THEN TRUE
    ELSE IF Ord(Head(s)) > Ord(Head(t)) THEN FALSE
    ELSE StrLess(Tail(s), Tail(t))

\* s.endswith(suffix)
EndsWith(s, suffix) ==
    /\ Len(s) >= Len(suffix)
    /\ SubSeq(s, Len(s) - Len(suffix) + 1, Len(s)) = suffix

\* s.split(sep): the list of fields between the separators
RECURSIVE Split(_, _)
Split(s, sep) ==
    IF \A i \in 1..Len(s) : s[i] # sep THEN <<s>>
    ELSE LET i == CHOOSE k \in 1..Len(s) :
                      s[k] = sep /\ \A j \in 1..(k - 1) : s[j] # sep
         IN <<SubSeq(s, 1, i - 1)>> \o Split(SubSeq(s, i + 1, Len(s)), sep)

\* s.rsplit(sep, maxsplit)[0]: what is left of s after cutting at most
\* maxsplit fields off its right end
RECURSIVE RSplitHead(_, _, _)
RSplitHead(s, sep, maxsplit) ==
    IF maxsplit = 0 \/ \A i \in 1..Len(s) : s[i] # sep THEN s
    ELSE LET i == CHOOSE k \in 1..Len(s) :
                      s[k] = sep /\ \A j \in (k + 1)..Len(s) : s[j] # sep
         IN RSplitHead(SubSeq(s, 1, i - 1), sep, maxsplit - 1)

\* int(text) succeeds (over the characters of Alphabet: no sign, blank or '_')
IsIntText(text) == text # <<>> /\ \A i \in 1..Len(text) : text[i] \in Digits

\* int(text)
RECURSIVE PyInt(_)
PyInt(text) ==
    IF text = <<>> THEN 0
    ELSE 10 * PyInt(SubSeq(text, 1, Len(text) - 1)) + DigitVal(text[Len(text)])

(***************************************************************************)
(* The directory listings tried                                            *)
(***************************************************************************)
Ext == <<".", "p", "t", "h", ".", "t", "a", "r">>

FileNames ==
    { <<"a", "-", "m", "-", "1">> \o Ext,                  \* a-m-1.pth.tar
      <<"b", "-", "n", "-", "1", "-", "x">> \o Ext,        \* b-n-1-x.pth.tar
      <<"a", "-", "n", "-", "2">> \o Ext,                  \* a-n-2.pth.tar
      <<"a", "-", "m">> \o Ext,                            \* a-m.pth.tar
      <<"a", "-", "m", "-", "x">> \o Ext,                  \* a-m-x.pth.tar
      <<"b", "-", "m", "-", "1", ".", "x">> \o Ext,        \* b-m-1.x.pth.tar
      <<"b", "-", "m", "-", "2", ".", "t", "a", "r">> }    \* b-m-2.tar

RECURSIVE ListingsOfLen(_)
ListingsOfLen(n) ==
    IF n = 0 THEN {<<>>}
    ELSE {Append(l, f) : l \in ListingsOfLen(n - 1), f \in FileNames}

NonRepeating(l) == \A i, j \in 1..Len(l) : l[i] = l[j] => i = j

Listings == {l \in UNION {ListingsOfLen(n) : n \in 0..MaxFiles} : NonRepeating(l)}

(***************************************************************************)
(* ensemble.py, lines 34-45: the checkpoint catalog                        *)
(***************************************************************************)
\* line 35
ModelFiles(listing) == SelectSeq(listing, LAMBDA f : EndsWith(f, Ext))

\* line 38
FileName(cp_file) == RSplitHead(cp_file, ".", 2)

\* line 39: the unpacking  a, b, c, *_ = ...  needs at least three fields
Unpacks(cp_file) == Len(Split(FileName(cp_file), "-")) >= 3

\* lines 39-40: no ValueError for this file
Parses(cp_file) ==
    /\ Unpacks(cp_file)
    /\ IsIntText(Split(FileName(cp_file), "-")[3])

\* lines 38-42: the tuple appended for one file
Entry(cp_file) ==
    LET f == Split(FileName(cp_file), "-")
    IN [group |-> f[1], name |-> f[2], acc |-> PyInt(f[3]), path |-> cp_file]

\* lines 36-42 when no file raises
RawInfo(listing) ==
    LET mf == ModelFiles(listing) IN [i \in 1..Len(mf) |-> Entry(mf[i])]

\* sorted(): x goes behind every element whose key is not greater
InsertByGroup(sorted, x) ==
    LET k == Cardinality({i \in 1..Len(sorted) : ~StrLess(x.group, sorted[i].group)})
    IN SubSeq(sorted, 1, k) \o <<x>> \o SubSeq(sorted, k + 1, Len(sorted))

\* line 44: sorted(model_info, key=itemgetter(0)), a stable sort
RECURSIVE SortedByGroup(_)
SortedByGroup(info) ==
    IF info = <<>> THEN <<>>
    ELSE InsertByGroup(SortedByGroup(SubSeq(info, 1, Len(info) - 1)), info[Len(info)])

\* mutant of line 45: the assert accepts a single model
EnoughModelsOne(info) == Len(info) > 0

\* line 45: assert len(model_info) > 1
EnoughModels(info) == Len(info) > 1

(***************************************************************************)
(* The dataset, the vocabulary and the scorer                              *)
(***************************************************************************)
\* dataset.codebook['itoa']
itoa == <<"yes", "no">>

\* dataset.que_id
que_ids == [p \in 1..NumSamples |-> 100 + p]

\* what dataset.reload_obj(group) may leave the dataloader to iterate over.
\* The dataset was built for the first entry's group and que_ids read from it
\* (lines 47, 52), so for that group it is que_ids; for another group it may
\* be the same questions, one fewer, one more, or the first two exchanged
Views(info, group) ==
    IF group = info[1].group THEN {que_ids}
    ELSE { que_ids,
           SubSeq(que_ids, 1, NumSamples - 1),
           Append(que_ids, 100 + NumSamples + 1),
           <<que_ids[2], que_ids[1]>> \o SubSeq(que_ids, 3, NumSamples) }

\* the scorers a checkpoint may hold: an output width and the scores it gives
OutDims == 1..(Len(itoa) + 1)

Models == UNION {[L : {d}, base : [1..d -> ScoreValues]] : d \in OutDims}

NoModel == [L |-> 0, base |-> <<>>]

\* line 77: model(*sample_var) for one sample; a function of the sample
Forward(m, que_id) == [i \in 1..m.L |-> m.base[((i + que_id) % m.L) + 1]]

Min(a, b) == IF a < b THEN a ELSE b

\* the batch the dataloader yields next (shuffle=False; the last may be short)
NextBatch(v, done, size) == SubSeq(v, done + 1, Min(done + size, Len(v)))

(***************************************************************************)
(* ensemble.py, lines 79-94: the aggregation arithmetic                    *)
(***************************************************************************)
\* torch.max(t, dim=1)[1] for one row: the index of the first maximal value
RECURSIVE MaxScan(_, _, _)
MaxScan(v, i, best) ==
    IF i > Len(v) THEN best
    ELSE MaxScan(v, i + 1, IF v[i] > v[best] THEN i ELSE best)

TorchMax(v) == MaxScan(v, 2, 1)

\* rows of conf_buff[a:b], a slice clipped to the array
SliceLen(n, a, b) == IF Min(n, b) > Min(n, a) THEN Min(n, b) - Min(n, a) ELSE 0

\* line 80 raises no ValueError: score (rows x L) broadcasts to the slice
AddOk(buff, from, score, L) ==
    LET rows == Len(score)
        r == SliceLen(Len(buff), from, from + rows)
    IN /\ rows = r \/ rows = 1
       /\ L = Len(itoa) \/ L = 1

\* mutant of line 80: the slice is assigned (=) instead of added to (+=)
ConfAssign(buff, from, score, L) ==
    LET rows == Len(score)
        r == SliceLen(Len(buff), from, from + rows)
    IN [p \in 1..Len(buff) |->
          IF p > from /\ p <= from + r
          THEN [j \in 1..Len(itoa) |->
                   score[IF rows = 1 THEN 1 ELSE p - from][IF L = 1 THEN 1 ELSE j]]
          ELSE buff[p]]

\* line 80: conf_buff[start:start+bs] += score, with numpy's broadcasting
ConfAdd(buff, from, score, L) ==
    LET rows == Len(score)
        r == SliceLen(Len(buff), from, from + rows)
    IN [p \in 1..Len(buff) |->
          IF p > from /\ p <= from + r
          THEN [j \in 1..Len(itoa) |->
                   buff[p][j] + score[IF rows = 1 THEN 1 ELSE p - from]
                                     [IF L = 1 THEN 1 ELSE j]]
          ELSE buff[p]]

HasKey(d, k) == \E i \in 1..Len(d) : d[i][1] = k

\* d.get(k, default)
DictGet(d, k, default) ==
    IF HasKey(d, k) THEN d[CHOOSE i \in 1..Len(d) : d[i][1] = k][2] ELSE default

\* d[k] = v: an existing key keeps its place, a new key goes last
DictSet(d, k, v) ==
    IF HasKey(d, k)
    THEN [i \in 1..Len(d) |-> IF d[i][1] = k THEN <<k, v>> ELSE d[i]]
    ELSE Append(d, <<k, v>>)

\* lines 83-85 for one row
VoteAdd(tally, ans_id, model_acc) ==
    LET ans == itoa[ans_id]
        ans_score == model_acc + DictGet(tally, ans, 0)
    IN DictSet(tally, ans, ans_score)

\* lines 82-85: rows 1..k of the batch, in order; a row whose position is
\* outside vote_buff raises IndexError and ends the loop
RECURSIVE VoteRows(_, _, _, _, _)
VoteRows(buff, from, score, model_acc, k) ==
    IF k = 0 THEN buff
    ELSE LET before == VoteRows(buff, from, score, model_acc, k - 1)
         IN IF from + k > Len(buff) THEN before
            ELSE [before EXCEPT ![from + k] =
                      VoteAdd(before[from + k], TorchMax(score[k]), model_acc)]

\* mutant of line 87: start advances by one, not by the batch's rows
NextStartByOne(from, rows) == from + 1

\* line 87
NextStart(from, rows) == from + rows

\* Counter(v).most_common(1)[0][0]: the key of the first item of greatest value
RECURSIVE CommonScan(_, _, _)
CommonScan(d, i, best) ==
    IF i > Len(d) THEN best
    ELSE CommonScan(d, i + 1, IF d[i][2] > d[best][2] THEN i ELSE best)

\* mutant of line 94: among items of equal value the last one is taken
RECURSIVE CommonScanLast(_, _, _)
CommonScanLast(d, i, best) ==
    IF i > Len(d) THEN best
    ELSE CommonScanLast(d, i + 1, IF d[i][2] >= d[best][2] THEN i ELSE best)

MostCommonLast(d) == d[CommonScanLast(d, 2, 1)][1]

\* mutant of line 94: the item of least value is taken
RECURSIVE CommonScanLeast(_, _, _)
CommonScanLeast(d, i, best) ==
    IF i > Len(d) THEN best
    ELSE CommonScanLeast(d, i + 1, IF d[i][2] < d[best][2] THEN i ELSE best)

MostCommonLeast(d) == d[CommonScanLeast(d, 2, 1)][1]

MostCommon(d) == d[CommonScan(d, 2, 1)][1]

(***************************************************************************)
(* ensemble.py main(), from line 33                                        *)
(***************************************************************************)
TrainIdle ==
    /\ tpc = "idle" /\ epoch = 0 /\ best_acc = 0 /\ best_epoch = -1
    /\ is_best = "unbound" /\ accs = <<>> /\ saved = {} /\ model_best = -1 /\ copies = {}

\* model_dir before the run: no result-conf.json yet, and a result-vote.json
\* left by an earlier run
FilesBefore == [conf |-> "absent", vote |-> "old"]

InitInputs ==
    /\ files \in Listings
    /\ bs \in 1..MaxBatch
    /\ fs0 = FilesBefore
    /\ fs = fs0
    /\ err = "" /\ model_info = <<>> /\ cur = 0 /\ view = <<>> /\ model = NoModel
    /\ fed = 0 /\ start = 0 /\ conf_buff = <<>> /\ vote_buff = <<>>
    /\ conf_result = <<>> /\ vote_result = <<>> /\ passes = <<>>

Init ==
    /\ pc = "catalog"
    /\ cli = [cfg_file |-> FALSE, set_cfgs |-> FALSE]
    /\ InitInputs
    /\ TrainIdle

Raise(e) == pc' = "raised" /\ err' = e

\* lines 37-40: some checkpoint file name does not parse
CatalogParseError ==
    /\ pc = "catalog"
    /\ \E i \in 1..Len(ModelFiles(files)) : ~Parses(ModelFiles(files)[i])
    /\ Raise("ValueError")
    /\ UNCHANGED <<cli, files, bs, model_info, cur, view, model, fed, start, conf_buff,
                   vote_buff, conf_result, vote_result, fs, fs0, passes, trainVars>>

\* lines 34-45: the assert fails
CatalogTooFew ==
    /\ pc = "catalog"
    /\ \A i \in 1..Len(ModelFiles(files)) : Parses(ModelFiles(files)[i])
    /\ ~EnoughModels(SortedByGroup(RawInfo(files)))
    /\ model_info' = SortedByGroup(RawInfo(files))
    /\ Raise("AssertionError")
    /\ UNCHANGED <<cli, files, bs, cur, view, model, fed, start, conf_buff,
                   vote_buff, conf_result, vote_result, fs, fs0, passes, trainVars>>

\* lines 34-45
CatalogOk ==
    /\ pc = "catalog"
    /\ \A i \in 1..Len(ModelFiles(files)) : Parses(ModelFiles(files)[i])
    /\ EnoughModels(SortedByGroup(RawInfo(files)))
    /\ model_info' = SortedByGroup(RawInfo(files))
    /\ pc' = "dataset"
    /\ UNCHANGED <<err, cli, files, bs, cur, view, model, fed, start, conf_buff,
                   vote_buff, conf_result, vote_result, fs, fs0, passes, trainVars>>

\* lines 47-52
OpenDataset ==
    /\ pc = "dataset"
    /\ vote_buff' = [p \in 1..NumSamples |-> <<>>]
    /\ conf_buff' = [p \in 1..NumSamples |-> [j \in 1..Len(itoa) |-> 0]]
    /\ cur' = 1
    /\ pc' = "load"
    /\ UNCHANGED <<err, cli, files, bs, model_info, view, model, fed, start,
                   conf_result, vote_result, fs, fs0, passes, trainVars>>

\* lines 55-73: the dataset is re-bound, the model built and its checkpoint loaded
LoadModel ==
    /\ pc = "load"
    /\ \E v \in Views(model_info, model_info[cur].group), m \in Models :
          /\ view' = v
          /\ model' = m
          /\ passes' = Append(passes, [view |-> v, model |-> m, acc |-> model_info[cur].acc])
    /\ fed' = 0
    /\ start' = 0
    /\ pc' = "score"
    /\ UNCHANGED <<err, cli, files, bs, model_info, cur, conf_buff, vote_buff,
                   conf_result, vote_result, fs, fs0, trainVars>>

\* lines 61-67: import_module, getattr, torch.load or load_state_dict raises
LoadFail ==
    /\ pc = "load"
    /\ Raise("LoadError")
    /\ UNCHANGED <<cli, files, bs, model_info, cur, view, model, fed, start, conf_buff,
                   vote_buff, conf_result, vote_result, fs, fs0, passes, trainVars>>

\* line 77: the scores of the next batch
BatchScore == LET batch == NextBatch(view, fed, bs)
              IN [i \in 1..Len(batch) |-> Forward(model, batch[i])]

\* lines 75-87: one iteration of the inner loop
ScoreBatch ==
    /\ pc = "score"
    /\ fed < Len(view)
    /\ AddOk(conf_buff, start, BatchScore, model.L)
    /\ start + Len(BatchScore) <= Len(vote_buff)
    /\ conf_buff' = ConfAdd(conf_buff, start, BatchScore, model.L)
    /\ vote_buff' = VoteRows(vote_buff, start, BatchScore, model_info[cur].acc, Len(BatchScore))
    /\ start' = NextStart(start, Len(BatchScore))
    /\ fed' = fed + Len(BatchScore)
    /\ UNCHANGED <<pc, err, cli, files, bs, model_info, cur, view, model,
                   conf_result, vote_result, fs, fs0, passes, trainVars>>

\* line 80 raises ValueError: the shapes do not broadcast
ScoreShapeError ==
    /\ pc = "score"
    /\ fed < Len(view)
    /\ ~AddOk(conf_buff, start, BatchScore, model.L)
    /\ Raise("ValueError")
    /\ UNCHANGED <<cli, files, bs, model_info, cur, view, model, fed, start, conf_buff,
                   vote_buff, conf_result, vote_result, fs, fs0, passes, trainVars>>

\* line 85 raises IndexError: a row's position is outside vote_buff
ScoreIndexError ==
    /\ pc = "score"
    /\ fed < Len(view)
    /\ AddOk(conf_buff, start, BatchScore, model.L)
    /\ start + Len(BatchScore) > Len(vote_buff)
    /\ conf_buff' = ConfAdd(conf_buff, start, BatchScore, model.L)
    /\ vote_buff' = VoteRows(vote_buff, start, BatchScore, model_info[cur].acc, Len(BatchScore))
    /\ Raise("IndexError")
    /\ UNCHANGED <<cli, files, bs, model_info, cur, view, model, fed, start,
                   conf_result, vote_result, fs, fs0, passes, trainVars>>

\* line 75: the dataloader is exhausted; line 53: the next entry, or the loop ends
EndPass ==
    /\ pc = "score"
    /\ fed = Len(view)
    /\ IF cur < Len(model_info)
       THEN cur' = cur + 1 /\ pc' = "load"
       ELSE cur' = cur /\ pc' = "finalize"
    /\ UNCHANGED <<err, cli, files, bs, model_info, view, model, fed, start, conf_buff,
                   vote_buff, conf_result, vote_result, fs, fs0, passes, trainVars>>

\* lines 89-92
ConfResult ==
    [p \in 1..Min(Len(que_ids), Len(conf_buff)) |->
        [question_id |-> que_ids[p], answer |-> itoa[TorchMax(conf_buff[p])]]]

\* lines 89-97.  Every tally holds a vote by now (the first entry's pass covers
\* every position), so most_common(1)[0] at line 94 finds an item
Finalize ==
    /\ pc = "finalize"
    /\ \A p \in 1..Len(vote_buff) : vote_buff[p] # <<>>
    /\ conf_result' = ConfResult
    /\ vote_buff' = [p \in 1..Len(vote_buff) |-> MostCommon(vote_buff[p])]
    /\ vote_result' = [p \in 1..Min(Len(que_ids), Len(vote_buff)) |->
                          [question_id |-> que_ids[p], answer |-> vote_buff'[p]]]
    /\ pc' = "open_conf"
    /\ UNCHANGED <<err, cli, files, bs, model_info, cur, view, model, fed, start,
                   conf_buff, fs, fs0, passes, trainVars>>

\* open(fname, 'w') creates the file or truncates it, under its final name
OpenW(which) ==
    /\ fs' = [fs EXCEPT ![which] = "truncated"]
    /\ UNCHANGED <<err, cli, files, bs, model_info, cur, view, model, fed, start, conf_buff,
                   vote_buff, conf_result, vote_result, fs0, passes, trainVars>>

\* open() or json.dump() raises; the file stays as it is at that point
WriteError ==
    /\ Raise("IOError")
    /\ UNCHANGED <<cli, files, bs, model_info, cur, view, model, fed, start, conf_buff,
                   vote_buff, conf_result, vote_result, fs, fs0, passes, trainVars>>

\* json.dump(...) writes the whole list and the file object is released
DumpAll(which) ==
    /\ fs' = [fs EXCEPT ![which] = "written"]
    /\ UNCHANGED <<err, cli, files, bs, model_info, cur, view, model, fed, start, conf_buff,
                   vote_buff, conf_result, vote_result, fs0, passes, trainVars>>

\* lines 99-100
OpenConf == pc = "open_conf" /\ pc' = "dump_conf" /\ OpenW("conf")

OpenConfFail == pc = "open_conf" /\ WriteError

DumpConf == pc = "dump_conf" /\ pc' = "open_vote" /\ DumpAll("conf")

DumpConfFail == pc = "dump_conf" /\ WriteError

\* lines 101-102
OpenVote == pc = "open_vote" /\ pc' = "dump_vote" /\ OpenW("vote")

OpenVoteFail == pc = "open_vote" /\ WriteError

DumpVote == pc = "dump_vote" /\ pc' = "done" /\ DumpAll("vote")

DumpVoteFail == pc = "dump_vote" /\ WriteError

Next ==
    \/ CatalogParseError \/ CatalogTooFew \/ CatalogOk \/ OpenDataset
    \/ LoadModel \/ LoadFail
    \/ ScoreBatch \/ ScoreShapeError \/ ScoreIndexError \/ EndPass
    \/ Finalize
    \/ OpenConf \/ OpenConfFail \/ DumpConf \/ DumpConfFail
    \/ OpenVote \/ OpenVoteFail \/ DumpVote \/ DumpVoteFail

Spec == Init /\ [][Next]_vars

(***************************************************************************)
(* ensemble.py main() as written, entered at line 28                       *)
(***************************************************************************)
EnsIdle ==
    /\ pc = "idle" /\ err = "" /\ cli = [cfg_file |-> FALSE, set_cfgs |-> FALSE]
    /\ files = <<>> /\ bs = 1 /\ model_info = <<>> /\ cur = 0 /\ view = <<>>
    /\ model = NoModel /\ fed = 0 /\ start = 0 /\ conf_buff = <<>> /\ vote_buff = <<>>
    /\ conf_result = <<>> /\ vote_result = <<>> /\ passes = <<>>
    /\ fs0 = FilesBefore /\ fs = fs0

InitMain ==
    /\ pc = "main"
    /\ cli \in [cfg_file : BOOLEAN, set_cfgs : BOOLEAN]
    /\ InitInputs
    /\ TrainIdle

\* line 28: args is a local of main() (it is assigned at line 33), so reading
\* it here raises UnboundLocalError whatever the command line is
MainEntry ==
    /\ pc = "main"
    /\ Raise("UnboundLocalError")
    /\ UNCHANGED <<cli, files, bs, model_info, cur, view, model, fed, start, conf_buff,
                   vote_buff, conf_result, vote_result, fs, fs0, passes, trainVars>>

NextMain == MainEntry

SpecMain == InitMain /\ [][NextMain]_vars

(***************************************************************************)
(* train.py main(), lines 149-182: the epoch loop                          *)
(***************************************************************************)
\* args.start_epoch
StartEpoch == 0

\* lines 149-150
InitTrain ==
    /\ EnsIdle
    /\ tpc = "loop"
    /\ epoch = StartEpoch
    /\ best_acc = 0
    /\ best_epoch = -1
    /\ is_best = "unbound"
    /\ accs = <<>>
    /\ saved = {}
    /\ model_best = -1
    /\ copies = {}

\* lines 161-164: is_best is assigned nowhere else
Better(acc) == acc > best_acc

\* lines 152-179 of one epoch whose validation accuracy is acc
EpochBody(acc) ==
    /\ accs' = Append(accs, acc)
    /\ IF Better(acc)
       THEN is_best' = "True" /\ best_acc' = acc /\ best_epoch' = epoch
       ELSE UNCHANGED <<is_best, best_acc, best_epoch>>
    /\ saved' = saved \cup {epoch}

\* lines 151-182: an epoch that gets through line 180
EpochStep ==
    /\ tpc = "loop"
    /\ epoch < MaxEpochs
    /\ \E acc \in 0..MaxAcc :
          /\ EpochBody(acc)
          /\ is_best' # "unbound"
          /\ IF is_best' = "True"
             THEN model_best' = epoch /\ copies' = copies \cup {epoch}
             ELSE UNCHANGED <<model_best, copies>>
    /\ epoch' = epoch + 1
    /\ UNCHANGED <<tpc, ensVars>>

\* lines 151-180: is_best is read at line 180 before it was ever assigned
EpochUnbound ==
    /\ tpc = "loop"
    /\ epoch < MaxEpochs
    /\ \E acc \in 0..MaxAcc :
          /\ EpochBody(acc)
          /\ is_best' = "unbound"
    /\ tpc' = "raised"
    /\ UNCHANGED <<epoch, model_best, copies, ensVars>>

\* line 151: the range is exhausted
TrainDone ==
    /\ tpc = "loop"
    /\ epoch >= MaxEpochs
    /\ tpc' = "finished"
    /\ UNCHANGED <<epoch, best_acc, best_epoch, is_best, accs, saved, model_best, copies,
                   ensVars>>

NextTrain == EpochStep \/ EpochUnbound \/ TrainDone

SpecTrain == InitTrain /\ [][NextTrain]_vars

(***************************************************************************)
(* Reference definitions for the properties: what the file names, the      *)
(* passes and the scores say, stated without the operators of the model    *)
(***************************************************************************)
SetMin(S) == CHOOSE x \in S : \A y \in S : x <= y

IsCheckpoint(f) ==
    /\ Len(f) >= Len(Ext)
    /\ \A k \in 1..Len(Ext) : f[Len(f) - Len(Ext) + k] = Ext[k]

BaseName(f) == [i \in 1..(Len(f) - Len(Ext)) |-> f[i]]

Dashes(s) == {i \in 1..Len(s) : s[i] = "-"}

FewFields(f) == Cardinality(Dashes(BaseName(f))) < 2

ThirdField(f) ==
    LET b == BaseName(f)
        d1 == SetMin(Dashes(b))
        d2 == SetMin(Dashes(b) \ {d1})
        rest == Dashes(b) \ {d1, d2}
        d3 == IF rest = {} THEN Len(b) + 1 ELSE SetMin(rest)
    IN [i \in 1..(d3 - d2 - 1) |-> b[d2 + i]]

NotInteger(t) == t = <<>> \/ \E i \in 1..Len(t) : t[i] \notin Digits

Checkpoints(listing) == {i \in 1..Len(listing) : IsCheckpoint(listing[i])}

Malformed(f) == FewFields(f) \/ NotInteger(ThirdField(f))

BadCatalog(listing) ==
    \/ Cardinality(Checkpoints(listing)) <= 1
    \/ \E i \in Checkpoints(listing) : Malformed(listing[i])

\* entry e's pass has yielded its sample number p
Reached(e, p) ==
    /\ e \in 1..Len(passes)
    /\ p <= Len(passes[e].view)
    /\ e < Len(passes) \/ p <= fed

\* the score vector entry e's scorer gives for the sample it yielded as number p
RefScore(e, p) ==
    LET m == passes[e].model
        q == passes[e].view[p]
    IN [i \in 1..m.L |-> m.base[((i + q) % m.L) + 1]]

\* the lowest index at which v is greatest
RefTop(v) ==
    CHOOSE i \in 1..Len(v) :
        /\ \A j \in 1..Len(v) : v[j] <= v[i]
        /\ \A j \in 1..(i - 1) : v[j] < v[i]

\* the answer each entry voted for at position p ("" where its pass has not
\* reached p)
Votes(p) ==
    [e \in 1..Len(passes) |->
        IF Reached(e, p) THEN itoa[RefTop(RefScore(e, p))] ELSE ""]

VotersIn(vs, a) == {e \in DOMAIN vs : vs[e] = a}

RECURSIVE SumAcc(_)
SumAcc(S) == IF S = {} THEN 0
             ELSE LET e == CHOOSE x \in S : TRUE IN passes[e].acc + SumAcc(S \ {e})

Answers == {itoa[i] : i \in 1..Len(itoa)}

\* per answer, the summed accuracy of the entries that voted for it
Weights(vs) == [a \in Answers |-> SumAcc(VotersIn(vs, a))]

\* per answer, the first entry that voted for it (0 if none did)
Firsts(vs) ==
    [a \in Answers |-> IF VotersIn(vs, a) = {} THEN 0 ELSE SetMin(VotersIn(vs, a))]

\* the answers of greatest weight among those voted for
TiedIn(w, f) == {a \in Answers : f[a] # 0 /\ \A b \in Answers : f[b] # 0 => w[b] <= w[a]}

RECURSIVE TallyWeight(_, _)
TallyWeight(t, a) ==
    IF t = <<>> THEN 0
    ELSE (IF Head(t)[1] = a THEN Head(t)[2] ELSE 0) + TallyWeight(Tail(t), a)

RECURSIVE TallyTotal(_)
TallyTotal(t) == IF t = <<>> THEN 0 ELSE Head(t)[2] + TallyTotal(Tail(t))

Positions == 1..NumSamples

FullPasses == \A e \in 1..Len(passes) : Len(passes[e].view) = NumSamples

AlignedPasses ==
    \A e \in 1..Len(passes) : passes[e].view = que_ids /\ passes[e].model.L = Len(itoa)

\* the sum over the entries of their score for question q, at vocabulary index j
RECURSIVE RefSum(_, _, _)
RefSum(e, q, j) ==
    IF e = 0 THEN 0
    ELSE LET m == passes[e].model
         IN m.base[((j + q) % m.L) + 1] + RefSum(e - 1, q, j)

Tallying == vote_buff # <<>> /\ vote_result = <<>>

Finalized == vote_result # <<>>

Stopped == pc = "raised"

(***************************************************************************)
(* Properties                                                              *)
(***************************************************************************)

\* C1: a run of main() on a model_dir with at least two well-formed checkpoint
\* artifacts, with or without --cfg / --set, does not end in a raised error
\* unless a fatal condition occurred.  (Under SpecMain no fatal condition can
\* occur: no file is parsed, no model loaded, nothing written.)
C1_RunSucceeds == ~BadCatalog(files) => pc # "raised"

\* C2: in the vote result every sample's answer has the greatest accumulated
\* weight of its tally and, among the answers of that weight, is the one
\* whose first vote came from the earliest entry in catalog order.
C2_VoteTieBreak ==
    Finalized =>
        \A p \in Positions :
            LET vs == Votes(p)
                w == Weights(vs)
                f == Firsts(vs)
                tied == TiedIn(w, f)
                ans == vote_result[p].answer
            IN /\ ans \in tied
               /\ \A b \in tied : f[ans] <= f[b]

\* two entries of equal accuracy disagree on a sample; the earlier one's answer wins
C2_Witness ==
    /\ pc = "done"
    /\ AlignedPasses
    /\ Len(passes) = 2
    /\ passes[1].acc = passes[2].acc
    /\ \E p \in Positions :
          /\ Votes(p)[1] # Votes(p)[2]
          /\ Votes(p)[2] # ""
          /\ vote_result[p].answer = Votes(p)[1]

\* C3: once every entry has been accumulated (each with vocabulary-length
\* scores for the samples of the SampleIndex, in its order), the confidence
\* answer at every position is the vocabulary string at the lowest index that
\* maximises the sum over all entries of their score vectors for that sample,
\* paired with the question id at that position of the SampleIndex.
C3_ConfidenceResult ==
    (conf_result # <<>> /\ AlignedPasses) =>
        /\ Len(conf_result) = NumSamples
        /\ \A p \in Positions :
              /\ conf_result[p].question_id = que_ids[p]
              /\ conf_result[p].answer =
                    itoa[RefTop([j \in 1..Len(itoa) |-> RefSum(Len(passes), que_ids[p], j)])]

\* a finished run in which some sample's summed scores tie at the maximum
\* although the two entries' own scores for it differ
C3_Witness ==
    /\ pc = "done"
    /\ AlignedPasses
    /\ \E p \in Positions :
          /\ \A j \in 1..Len(itoa) : RefSum(Len(passes), que_ids[p], j) = 1
          /\ RefScore(1, p) # RefScore(2, p)
          /\ conf_result[p].answer = itoa[1]

\* C4: a run that stopped before successful completion has left both result
\* files as they were when it began (stated for runs whose passes were all
\* well-formed, so that the failure is the only irregularity).
C4_FailedRunLeavesFiles == (Stopped /\ AlignedPasses) => fs = fs0

\* C5: a pass whose scorer returns vectors of a length other than the
\* vocabulary size gets no batch accepted: the run raises at its first batch.
C5_LengthMismatchAborts ==
    \A e \in 1..Len(passes) :
        passes[e].model.L # Len(itoa) =>
            /\ e = Len(passes)
            /\ fed = 0
            /\ pc \in {"score", "raised"}
            /\ pc = "raised" => fs = fs0

\* C6: no run completes in which some entry's pass yielded other question
\* ids, or in another order, than the SampleIndex (stated for runs whose
\* scorers all return vocabulary-length vectors).
C6_MisalignmentAborts ==
    (pc = "done" /\ \A e \in 1..Len(passes) : passes[e].model.L = Len(itoa))
        => \A e \in 1..Len(passes) : passes[e].view = que_ids

\* C7 (as stated): when exactly one entry votes for answer a at a sample, the
\* vote result there is a if and only if a's weight is strictly greater than
\* the weight of every other answer of the tally (stated for runs whose
\* passes were all well-formed).
C7_StrictlyGreatest ==
    (Finalized /\ AlignedPasses) =>
        \A p \in Positions :
            LET vs == Votes(p)
                w == Weights(vs)
                f == Firsts(vs)
            IN \A a \in Answers :
                  Cardinality(VotersIn(vs, a)) = 1 =>
                      (vote_result[p].answer = a
                          <=> \A b \in Answers \ {a} : f[b] # 0 => w[a] > w[b])

\* C7 (amended): when exactly one entry votes for answer a at a sample, the
\* vote result there is a if and only if, against every other answer of the
\* tally, a's weight is strictly greater, or equal with a voted for first.
C7_GreatestOrFirstOfTied ==
    Finalized =>
        \A p \in Positions :
            LET vs == Votes(p)
                w == Weights(vs)
                f == Firsts(vs)
            IN \A a \in Answers :
                  Cardinality(VotersIn(vs, a)) = 1 =>
                      (vote_result[p].answer = a
                          <=> \A b \in Answers \ {a} :
                                 f[b] # 0 => \/ w[a] > w[b]
                                             \/ w[a] = w[b] /\ f[a] < f[b])

\* an answer with a single voter wins a sample on the tie-break alone
C7_Witness ==
    /\ Finalized
    /\ AlignedPasses
    /\ \E p \in Positions : \E a \in Answers :
          /\ Cardinality(VotersIn(Votes(p), a)) = 1
          /\ vote_result[p].answer = a
          /\ \E b \in Answers \ {a} :
                /\ Firsts(Votes(p))[b] # 0
                /\ Weights(Votes(p))[a] = Weights(Votes(p))[b]

\* C8: with fewer than two checkpoint files, or one whose base name has fewer
\* than three dash-separated fields or a third field that is no integer, the
\* run raises before the dataset is opened or a model loaded, and the result
\* files stay untouched.
C8_CatalogErrorsFirst ==
    \/ /\ pc \in {"catalog", "raised"}
       /\ pc = "raised" => err \in {"ValueError", "AssertionError"}
       /\ conf_buff = <<>> /\ vote_buff = <<>> /\ passes = <<>>
       /\ fs = fs0
    \/ ~BadCatalog(files)

\* a directory of a single checkpoint beside another file fails the assert
C8_Witness ==
    /\ pc = "raised"
    /\ err = "AssertionError"
    /\ Len(files) = 2
    /\ Cardinality(Checkpoints(files)) = 1

\* C9: while the tallies are being built, every position's tally holds, per
\* answer, the accuracies of exactly the entries whose pass has reached that
\* position and whose top answer there it is; so with full passes its weights
\* sum to the accuracies of the entries that have reached the position.
C9_VoteAccounting ==
    Tallying =>
        \A p \in Positions :
            LET w == Weights(Votes(p))
            IN /\ \A a \in Answers : TallyWeight(vote_buff[p], a) = w[a]
               /\ FullPasses =>
                     TallyTotal(vote_buff[p]) = SumAcc({e \in 1..Len(passes) : Reached(e, p)})

\* every entry has been processed in batches of two with a short last batch
C9_Witness ==
    /\ pc = "finalize"
    /\ AlignedPasses
    /\ bs = 2
    /\ NumSamples % bs # 0
    /\ Len(passes) = Len(model_info)
    /\ \A p \in Positions : TallyTotal(vote_buff[p]) = SumAcc(1..Len(passes))

MaxOf(S) == IF S = {} THEN 0 ELSE CHOOSE x \in S : \A y \in S : y <= x

\* the epochs whose accuracy is strictly greater than that of every earlier one
Improving ==
    {StartEpoch + i - 1 : i \in {k \in 1..Len(accs) :
                                    accs[k] > MaxOf({accs[j] : j \in 1..(k - 1)})}}

\* C10: every epoch gets through its checkpoint step; model-best.pth.tar has
\* been overwritten in exactly the epochs that improved on all earlier ones,
\* and so, when it exists, holds the checkpoint of best_epoch.
C10_BestCheckpoint ==
    /\ tpc # "raised"
    /\ copies = Improving
    /\ model_best # -1 => model_best = best_epoch

====
